---------------------------- MODULE Spec2Model ----------------------------
(***************************************************************************)
(* A model of The Lounge's connection/session core:                        *)
(*   - Network        (src/unnamed/part_001)                               *)
(*   - ClientManager  (src/unnamed/part_002)                               *)
(*   - Uploader       (src/src/plugins/uploader.js)                        *)
(* JavaScript strings are sequences of UTF-16 code units (integers), so    *)
(* that cleaning, lower-casing, truncation and comparison are computed     *)
(* rather than assumed.                                                    *)
(***************************************************************************)
EXTENDS Integers, Sequences, FiniteSets, TLC

VARIABLES
    config,     \* Helper.config, fixed by the administrator
    net,        \* the Network object (its own properties)
    sts,        \* STSPolicies: the set of stored policies
    now,        \* Date.now(), in abstract time units
    last,       \* the last operation performed, its inputs and its outputs
    clients,    \* ClientManager.clients
    database,   \* ClientManager.database: the pool currently held (0: none)
    rows,       \* the users table of the database
    queries,    \* the queries handed to a pool whose callback has not run yet
    issued,     \* how many queries have been handed to a pool
    lastSave,   \* per account, the data of the most recent saveUser call
    cmLast,     \* the last ClientManager step and what it returned
    peer,       \* a second Network, of another user, on the same host
    crashed,    \* an exception no handler catches has ended the process
    uploadTokens,   \* the keys of the Uploader's map uploadTokens
    timers,         \* the tokens whose one-minute timer has not fired yet
    tokenCount,     \* how many tokens uuidv4() has produced
    requests        \* the upload requests received, in the order they came

vars == <<config, net, sts, now, last,
          clients, database, rows, queries, issued, lastSave, cmLast,
          peer, crashed, uploadTokens, timers, tokenCount, requests>>
netVars == <<config, net, sts, now, last, peer>>
cmData == <<clients, database, rows, queries, issued, lastSave, cmLast>>
cmVars == <<clients, database, rows, queries, issued, lastSave, cmLast, crashed>>
upVars == <<uploadTokens, timers, tokenCount, requests>>

----------------------------------------------------------------------------
(* Bounds of the model *)

\* Date.now() runs from 0 to MaxTime
MaxTime == 2
\* addChannel is called while the list holds at most this many entries
MaxChannels == 1
\* the same, in the specification that only adds channels
MaxSortedChannels == 4
\* the ClientManager hands at most this many queries to its pools
MaxQueries == 5
\* a session holds at most this many networks
MaxNetworks == 1
\* the ClientManager creates at most this many pools
MaxPools == 2
\* at most this many upload tokens are issued
MaxTokens == 2
\* at most this many upload requests are received
MaxRequests == 2

----------------------------------------------------------------------------
(* Strings *)

Min(a, b) == IF a <= b THEN a ELSE b

\* ""
EmptyStr == <<>>
\* null / undefined for a string-valued property
NullStr == <<0 - 1>>

\* String.prototype.substring(from, to) for 0 <= from <= to
substring(str, from, to) == SubSeq(str, from + 1, Min(to, Len(str)))

\* String.prototype.toLowerCase on the ASCII range
toLowerCase(str) ==
    [i \in 1..Len(str) |-> IF str[i] \in 65..90 THEN str[i] + 32 ELSE str[i]]

\* the JavaScript regular expression class \s
WhiteSpace ==
    {9, 10, 11, 12, 13, 32, 160, 5760, 8232, 8233, 8239, 8287, 12288, 65279}
        \cup (8192..8202)

\* the class [\x00\s:!@]
NickDisallowed == {0, 58, 33, 64} \cup WhiteSpace

\* str.replace(/[\x00\s:!@]/g, "_").substring(0, 100)
cleanNick(str) ==
    substring([i \in 1..Len(str) |-> IF str[i] \in NickDisallowed THEN 95 ELSE str[i]],
              0, 100)

\* str.replace(/[\x00\r\n]/g, "").substring(0, 300)
cleanString(str) ==
    substring(SelectSeq(str, LAMBDA c : c \notin {0, 13, 10}), 0, 300)

\* str.replace(/[^a-zA-Z0-9]/g, "")
alphanumeric(str) ==
    SelectSeq(str, LAMBDA c : c \in (97..122) \cup (65..90) \cup (48..57))

\* NaN
NaN == 0 - 1

\* parseInt(str, 10) for an unsigned decimal string: the leading digits, or NaN
RECURSIVE parseDigits(_, _, _)
parseDigits(str, i, acc) ==
    IF i > Len(str) \/ str[i] \notin 48..57 THEN acc
    ELSE parseDigits(str, i + 1, acc * 10 + (str[i] - 48))

parseInt(str) ==
    IF Len(str) = 0 \/ str[1] \notin 48..57 THEN NaN ELSE parseDigits(str, 1, 0)

\* the truthiness of a number: false for 0 and NaN
truthyNumber(n) == n # 0 /\ n # NaN

\* String(args.commands || "").replace(/\r\n|\r|\n/g, "\n").split("\n")
\*     .filter((command) => command.length > 0)
RECURSIVE splitCommands(_, _, _)
splitCommands(str, i, cur) ==
    IF i > Len(str) THEN (IF Len(cur) > 0 THEN <<cur>> ELSE <<>>)
    ELSE IF str[i] \in {10, 13}
         THEN (IF Len(cur) > 0 THEN <<cur>> ELSE <<>>) \o splitCommands(str, i + 1, <<>>)
         ELSE splitCommands(str, i + 1, Append(cur, str[i]))

\* the strings of the model
\* "d.io", the administrator's default host
HostD == <<100, 46, 105, 111>>
\* "h.io"
HostH == <<104, 46, 105, 111>>
\* "H.io"
HostHUpper == <<72, 46, 105, 111>>
\* "D.io"
HostDUpper == <<68, 46, 105, 111>>
\* "h\x01.io": a control byte that is neither NUL, CR nor LF
HostControl == <<104, 1, 46, 105, 111>>
\* "\n"
HostNewline == <<10>>
\* a host of 301 code units, "AAA...A"
HostLong == [i \in 1..301 |-> 65]
\* "al"
NickAl == <<97, 108>>
\* "a\x01b": a control byte that is not NUL
NickControl == <<97, 1, 98>>
\* "a\0:b"
NickNul == <<97, 0, 58, 98>>
\* a nick of 101 code units, "@@@...@"
NickLong == [i \in 1..101 |-> 64]
\* "a b!"
NickSpaced == <<97, 32, 98, 33>>
\* "lounge", the default nick
NickDefault == <<108, 111, 117, 110, 103, 101>>
\* "net"
NameNet == <<110, 101, 116>>
\* "ne\nt"
NameNewline == <<110, 101, 10, 116>>
\* "pw"
StrPw == <<112, 119>>
\* "me"
StrMe == <<109, 101>>
\* "/j a\r\n\n/j b"
StrCommands == <<47, 106, 32, 97, 13, 10, 10, 47, 106, 32, 98>>
\* "7000"
StrPort == <<55, 48, 48, 48>>
\* "7f000001", Helper.ip2hex of the browser's address
HexIp == <<55, 102, 48, 48, 48, 48, 48, 49>>
\* "thelounge"
StrThelounge == <<116, 104, 101, 108, 111, 117, 110, 103, 101>>
\* "The Lounge User"
StrLoungeUser ==
    <<84, 104, 101, 32, 76, 111, 117, 110, 103, 101, 32, 85, 115, 101, 114>>
\* "alpha", "ALPHA", "mango", "Mango", "zulu"
ChanAlpha == <<97, 108, 112, 104, 97>>
ChanALPHA == <<65, 76, 80, 72, 65>>
ChanMango == <<109, 97, 110, 103, 111>>
ChanMangoCap == <<77, 97, 110, 103, 111>>
ChanZulu == <<122, 117, 108, 117>>

----------------------------------------------------------------------------
(* Helper.config *)

\* The administrator's configuration: the options the Network reads.
Configs ==
    [lockNetwork : BOOLEAN,
     public : BOOLEAN,
     useHexIp : {FALSE},
     displayNetwork : {TRUE},
     defaults : [host : {HostD}, port : {7000}, tls : BOOLEAN,
                 rejectUnauthorized : {FALSE}, nick : {NickDefault}]]

\* The same with the options the edit form depends on varied too.
ValidateConfigs ==
    [lockNetwork : BOOLEAN,
     public : BOOLEAN,
     useHexIp : {FALSE},
     displayNetwork : BOOLEAN,
     defaults : [host : {HostD}, port : {7000}, tls : BOOLEAN,
                 rejectUnauthorized : {FALSE}, nick : {NickDefault}]]

\* The configurations under which a held handle is edited.
EditConfigs ==
    [lockNetwork : BOOLEAN,
     public : {FALSE},
     useHexIp : BOOLEAN,
     displayNetwork : {TRUE},
     defaults : [host : {HostD}, port : {7000}, tls : {FALSE},
                 rejectUnauthorized : {FALSE}, nick : {NickDefault}]]

\* Helper.getDefaultNick()
getDefaultNick == config.defaults.nick

----------------------------------------------------------------------------
(* STSPolicies *)

\* the hosts that may advertise a policy, the port and the duration they give
PolicyHosts == {HostD, HostH}
PolicyPorts == {6697}
PolicyDuration == 2

\* STSPolicies.get(host): the stored policy of host that has not expired
\* (a set: empty when there is none)
STSGet(store, t, host) == {p \in store : p.host = host /\ p.expires > t}

\* STSPolicies.set(host, port, duration): stores or overwrites host's policy
STSSetPolicy(store, t, host, port, duration) ==
    {p \in store : p.host # host}
        \cup {[host |-> host, port |-> port, duration |-> duration,
               expires |-> t + duration]}

\* STSPolicies.refreshExpiration(host): the expiry of host's live policy is
\* recomputed from now
STSRefreshExpiration(store, t, host) ==
    {IF p.host = host /\ p.expires > t
        THEN [p EXCEPT !.expires = t + p.duration] ELSE p : p \in store}

----------------------------------------------------------------------------
(* Chan *)

ChanType == [LOBBY |-> "lobby", CHANNEL |-> "channel", QUERY |-> "query",
             SPECIAL |-> "special"]

\* new Chan({name, type}); id tells the entities of the model apart
Chan(name, type, id) == [name |-> name, type |-> type, id |-> id]

\* Chan.prototype.getFilteredClone: the channel's own whitelisted view
ChanGetFilteredClone(chan) == [name |-> chan.name, type |-> chan.type]

----------------------------------------------------------------------------
(* Network *)

\* the handle of a Network that has never created one
NoIrc == [created |-> FALSE]

\* the values of uuidv4() for the Networks of the model
Uuid == <<117, 49>>
UuidPeer == <<117, 50>>

fieldsForClientWithPassword == {"uuid", "name", "nick", "serverOptions", "password"}

\* fieldsForClient: the keys sent to the client by default
fieldsForClient == {"uuid", "name", "nick", "serverOptions"}

\* the defaults of the constructor
NetworkDefaults ==
    [name |-> EmptyStr, nick |-> EmptyStr, host |-> EmptyStr, port |-> 6667,
     tls |-> FALSE, userDisconnected |-> FALSE, rejectUnauthorized |-> FALSE,
     password |-> EmptyStr, awayMessage |-> EmptyStr, commands |-> <<>>,
     username |-> EmptyStr, realname |-> EmptyStr, channels |-> <<>>,
     irc |-> NoIrc,
     serverOptions |-> [CHANTYPES |-> <<35, 38>>, PREFIX |-> <<33, 64, 37, 43>>,
                        NETWORK |-> EmptyStr],
     chanCache |-> <<>>, ignoreList |-> <<>>, keepNick |-> NullStr]

\* function Network(attr)
Network(attr) ==
    LET merged == attr @@ NetworkDefaults
        withUuid == IF "uuid" \in DOMAIN merged THEN merged
                    ELSE merged @@ [uuid |-> Uuid]
        named == IF withUuid.name = EmptyStr
                    THEN [withUuid EXCEPT !.name = withUuid.host] ELSE withUuid
    IN  [named EXCEPT !.channels =
            <<Chan(named.name, ChanType.LOBBY, 0)>> \o named.channels]

\* Network.prototype.setNick
setNick(n, nick) ==
    LET set == [k \in DOMAIN n \cup {"highlightRegex"} |->
                   IF k = "nick" THEN nick
                   ELSE IF k = "highlightRegex" THEN nick
                   ELSE n[k]]
    IN  IF set.keepNick = nick THEN [set EXCEPT !.keepNick = NullStr] ELSE set

\* the messages validate pushes to the lobby
MsgHostNotAllowed == "Hostname you specified is not allowed."
MsgNoHost == "You must specify a hostname to connect."
MsgStsPolicy == "has an active strict transport security policy"

\* validate, lines 72-87: the fields are cleaned and the port defaulted
validateClean(n) ==
    LET n1 == setNick(n, cleanNick(IF n.nick \in {EmptyStr, NullStr}
                                      THEN getDefaultNick ELSE n.nick))
        n2 == IF n1.username = EmptyStr
                 THEN [n1 EXCEPT !.username = alphanumeric(n1.nick)] ELSE n1
        n3 == [n2 EXCEPT
                 !.username = IF cleanString(n2.username) = EmptyStr
                                 THEN StrThelounge ELSE cleanString(n2.username),
                 !.realname = IF cleanString(n2.realname) = EmptyStr
                                 THEN StrLoungeUser ELSE cleanString(n2.realname),
                 !.password = cleanString(n2.password),
                 !.host = toLowerCase(cleanString(n2.host)),
                 !.name = cleanString(n2.name)]
    IN  IF ~truthyNumber(n3.port)
           THEN [n3 EXCEPT !.port = IF n3.tls THEN 6697 ELSE 6667] ELSE n3

\* validate, lines 89-113: the host the user gave is refused under lockNetwork
validateLockRefuses(n) ==
    /\ config.lockNetwork
    /\ ~config.public
    /\ Len(n.host) > 0
    /\ n.host # config.defaults.host

validateLockKeepsPort(n) ==
    IF config.lockNetwork
       THEN [n EXCEPT !.host = config.defaults.host,
                      !.tls = config.defaults.tls,
                      !.rejectUnauthorized = config.defaults.rejectUnauthorized]
       ELSE n

\* validate, lines 109-112: the administrator's defaults are forced
validateLock(n) ==
    IF config.lockNetwork
       THEN [n EXCEPT !.host = config.defaults.host,
                      !.port = config.defaults.port,
                      !.tls = config.defaults.tls,
                      !.rejectUnauthorized = config.defaults.rejectUnauthorized]
       ELSE n

validateStsKeepsPort(n, store, t) ==
    LET stsPolicy == STSGet(store, t, n.host)
    IN  IF stsPolicy # {} /\ ~n.tls
           THEN [n EXCEPT !.tls = TRUE, !.rejectUnauthorized = TRUE]
           ELSE n

\* validate, lines 128-143: a policy of the host forces a secure connection
validateSts(n, store, t) ==
    LET stsPolicy == STSGet(store, t, n.host)
    IN  IF stsPolicy # {} /\ ~n.tls
           THEN [n EXCEPT !.port = (CHOOSE p \in stsPolicy : TRUE).port,
                          !.tls = TRUE,
                          !.rejectUnauthorized = TRUE]
           ELSE n

\* Network.prototype.validate: the Network it leaves, what it returns and the
\* messages it pushes to the lobby
validate(n, store, t) ==
    LET cleaned == validateClean(n)
        locked == validateLock(cleaned)
    IN  IF validateLockRefuses(cleaned)
           THEN [net |-> cleaned, ret |-> FALSE, msgs |-> <<MsgHostNotAllowed>>]
        ELSE IF Len(locked.host) = 0
           THEN [net |-> locked, ret |-> FALSE, msgs |-> <<MsgNoHost>>]
        ELSE [net |-> validateSts(locked, store, t), ret |-> TRUE,
              msgs |-> IF STSGet(store, t, locked.host) # {} /\ ~locked.tls
                          THEN <<MsgStsPolicy>> ELSE <<>>]

\* the client on whose behalf a connection is created
ClientContexts == [log : BOOLEAN, canProvideMessages : {TRUE}]

\* Math.floor(Math.random() * 1000), sampled at both ends of its range
Jitters == {0, 1, 999}

autoReconnectWaitFlooredFirst(jitter) == 10000 + (jitter \div 1000) * 1000

\* 10000 + Math.floor(Math.random() * 1000), for the number jitter drawn
autoReconnectWait(jitter) == 10000 + jitter

\* Network.prototype.createIrcFramework: the handle it creates (the webirc
\* option, which no property of the model reads, is left out)
createIrcFramework(n, client, jitter) ==
    [created |-> TRUE,
     options |-> [host |-> n.host, port |-> n.port, nick |-> n.nick,
                  username |-> IF config.useHexIp THEN HexIp ELSE n.username,
                  gecos |-> n.realname, password |-> n.password, tls |-> n.tls,
                  rejectUnauthorized |-> n.rejectUnauthorized,
                  auto_reconnect |-> TRUE,
                  auto_reconnect_wait |-> autoReconnectWait(jitter),
                  auto_reconnect_max_retries |-> 360],
     user |-> [nick |-> n.nick,
               username |-> IF config.useHexIp THEN HexIp ELSE n.username,
               gecos |-> n.realname],
     caps |-> {"znc.in/self-message"}
                 \cup (IF client.log /\ client.canProvideMessages
                          THEN {"znc.in/playback"} ELSE {}),
     transport |-> "none"]

\* Network.prototype.getNetworkStatus
getNetworkStatus(n) ==
    IF n.irc.created /\ n.irc.transport # "none"
       THEN [connected |-> TRUE,
             secure |-> n.irc.transport \in {"authorized", "localhost"}]
       ELSE [connected |-> FALSE, secure |-> FALSE]

\* Network.prototype.getFilteredClone
getFilteredClone(n) ==
    LET kept == {prop \in DOMAIN n : prop = "channels" \/ prop \in fieldsForClient}
    IN  [prop \in kept \cup {"status"} |->
            IF prop = "status" THEN getNetworkStatus(n)
            ELSE IF prop = "channels"
                 THEN [i \in 1..Len(n.channels) |-> ChanGetFilteredClone(n.channels[i])]
                 ELSE n[prop]]

\* Network.prototype.exportForEdit: _.pick takes the listed properties the
\* Network has, and hasSTSPolicy is added in both modes
exportForEdit(n, store, t) ==
    LET fieldsToReturn ==
            IF config.displayNetwork
               THEN {"uuid", "nick", "name", "host", "port", "tls",
                     "rejectUnauthorized", "password", "username", "realname",
                     "commands"}
               ELSE {"name", "nick", "username", "password", "realname"}
        picked == {k \in fieldsToReturn : k \in DOMAIN n}
    IN  [k \in picked \cup {"hasSTSPolicy"} |->
            IF k = "hasSTSPolicy" THEN STSGet(store, t, n.host) # {} ELSE n[k]]

\* the arguments of edit: what the edit form of the client submits
EditArgs ==
    [nick : {NickSpaced},
     host : {HostH, HostHUpper, EmptyStr},
     name : {EmptyStr},
     port : {EmptyStr},
     tls : {FALSE},
     rejectUnauthorized : {FALSE},
     password : {EmptyStr},
     username : {EmptyStr},
     realname : {EmptyStr},
     commands : {EmptyStr}]
    \cup
    [nick : {NickAl},
     host : {HostD},
     name : {NameNet, NameNewline},
     port : {StrPort},
     tls : {TRUE},
     rejectUnauthorized : {TRUE},
     password : {StrPw},
     username : {StrMe},
     realname : {StrMe},
     commands : {StrCommands}]

\* the arguments of edit that matter to the policies: a host and whether to
\* use TLS
StsEditArgs ==
    [nick : {NickAl},
     host : {HostH, HostD},
     name : {EmptyStr},
     port : {EmptyStr},
     tls : BOOLEAN,
     rejectUnauthorized : {FALSE},
     password : {EmptyStr},
     username : {EmptyStr},
     realname : {EmptyStr},
     commands : {EmptyStr}]

\* edit, lines 211-232: the fields are replaced by the submitted ones and the
\* lobby is renamed
editAssign(n, args) ==
    LET host == args.host
        name == IF args.name # EmptyStr THEN args.name ELSE host
    IN  [n EXCEPT !.keepNick = NullStr,
                  !.nick = args.nick,
                  !.host = host,
                  !.name = name,
                  !.port = parseInt(args.port),
                  !.tls = args.tls,
                  !.rejectUnauthorized = args.rejectUnauthorized,
                  !.password = args.password,
                  !.username = args.username,
                  !.realname = args.realname,
                  !.commands = splitCommands(args.commands, 1, <<>>),
                  !.channels[1].name = name]

\* edit, lines 238-274: the commands sent over a live handle
editSent(n, oldNick, oldRealname, setname) ==
    IF ~n.irc.created THEN <<>>
    ELSE (IF n.nick # oldNick /\ n.irc.transport # "none" THEN <<"NICK">> ELSE <<>>)
         \o (IF n.irc.transport # "none" /\ n.realname # oldRealname /\ setname
                THEN <<"SETNAME">> ELSE <<>>)

\* edit, lines 246-252: the events emitted to the client
editEmitted(n, oldNick) ==
    IF n.irc.created /\ n.nick # oldNick /\ n.irc.transport = "none"
       THEN <<"nick">> ELSE <<>>

editIrcKeepsPort(n, oldNick) ==
    IF ~n.irc.created THEN n.irc
    ELSE LET connected == n.irc.transport # "none"
             nicked == IF n.nick # oldNick /\ ~connected
                          THEN [n.irc EXCEPT !.options.nick = n.nick,
                                             !.user.nick = n.nick]
                          ELSE n.irc
             opts == [nicked EXCEPT !.options.host = n.host,
                                    !.options.password = n.password,
                                    !.options.gecos = n.realname,
                                    !.user.gecos = n.realname,
                                    !.options.tls = n.tls,
                                    !.options.rejectUnauthorized = n.rejectUnauthorized]
         IN  IF ~config.useHexIp
                THEN [opts EXCEPT !.options.username = n.username,
                                  !.user.username = n.username]
                ELSE opts

\* edit, lines 238-274: the handle after an accepted edit
editIrc(n, oldNick) ==
    IF ~n.irc.created THEN n.irc
    ELSE LET connected == n.irc.transport # "none"
             nicked == IF n.nick # oldNick /\ ~connected
                          THEN [n.irc EXCEPT !.options.nick = n.nick,
                                             !.user.nick = n.nick]
                          ELSE n.irc
             opts == [nicked EXCEPT !.options.host = n.host,
                                    !.options.port = n.port,
                                    !.options.password = n.password,
                                    !.options.gecos = n.realname,
                                    !.user.gecos = n.realname,
                                    !.options.tls = n.tls,
                                    !.options.rejectUnauthorized = n.rejectUnauthorized]
         IN  IF ~config.useHexIp
                THEN [opts EXCEPT !.options.username = n.username,
                                  !.user.username = n.username]
                ELSE opts

\* the code units of a and b compared from position i on: -1, 0 or 1
RECURSIVE compareUnits(_, _, _)
compareUnits(a, b, i) ==
    IF i > Len(a) /\ i > Len(b) THEN 0
    ELSE IF i > Len(a) THEN 0 - 1
    ELSE IF i > Len(b) THEN 1
    ELSE IF a[i] < b[i] THEN 0 - 1
    ELSE IF a[i] > b[i] THEN 1
    ELSE compareUnits(a, b, i + 1)

localeCompareByCodeUnit(a, b) == compareUnits(a, b, 1)

\* a.localeCompare(b, {sensitivity: "base"}) on names made of ASCII letters.
\* The options object stands where the locales are expected, so the default
\* collation applies: the letters decide first, whatever their case, and
\* between names with the same letters the lower case one comes first.
localeCompare(a, b) ==
    LET letters == compareUnits(toLowerCase(a), toLowerCase(b), 1)
    IN  IF letters # 0 THEN letters ELSE 0 - compareUnits(a, b, 1)

isChannelOrQuery(chan) == chan.type \in {ChanType.CHANNEL, ChanType.QUERY}

\* addChannel, lines 353-370: the index (from 0) newChan is inserted at
addChannelIndex(channels, newChan) ==
    LET stops == {i \in 1..(Len(channels) - 1) :
                     \/ localeCompare(newChan.name, channels[i + 1].name) <= 0
                     \/ ~isChannelOrQuery(channels[i + 1])}
    IN  IF isChannelOrQuery(newChan) /\ stops # {}
           THEN CHOOSE i \in stops : \A j \in stops : i <= j
           ELSE Len(channels)

\* this.channels.splice(index, 0, newChan)
splice(channels, index, newChan) ==
    SubSeq(channels, 1, index) \o <<newChan>> \o SubSeq(channels, index + 1, Len(channels))

----------------------------------------------------------------------------
(* The Network's operations *)

\* what the constructor is given
ConstructAttrs ==
    {[host |-> HostH, nick |-> NickAl],
     [host |-> HostD, name |-> NameNewline, tls |-> TRUE, port |-> 6697, uuid |-> Uuid]}

\* what the constructor is given when a user submits the connect form: the
\* host and the nick are whatever was typed
ValidateAttrs ==
    [host : {EmptyStr, HostH, HostHUpper, HostD, HostDUpper, HostControl,
             HostNewline, HostLong},
     nick : {EmptyStr, NickAl, NickSpaced, NickControl, NickNul, NickLong}]

\* the policies stored when the form is submitted
ValidateStores ==
    {{}} \cup {{[host |-> host, port |-> port, duration |-> PolicyDuration,
                 expires |-> PolicyDuration]} :
                  host \in PolicyHosts, port \in PolicyPorts}

\* the record of an operation: its name, the policies before it, what it
\* returned, the messages it pushed to the lobby, the commands it sent, the
\* events it emitted, how often it saved the client, the index it returned (or
\* the number it drew at random)
Last(op, ret, msgs, sent, emitted, saved, index) ==
    [op |-> op, stsPre |-> sts, ret |-> ret, msgs |-> msgs,
     sent |-> sent, emitted |-> emitted, saved |-> saved, index |-> index]

InitNetwork ==
    /\ config \in Configs
    /\ \E attr \in ConstructAttrs : net = Network(attr)
    /\ peer = Network([host |-> net.host, nick |-> NickDefault, uuid |-> UuidPeer])
    /\ sts = {}
    /\ now = 0
    /\ last = [op |-> "new", stsPre |-> {}, ret |-> TRUE, msgs |-> <<>>,
               sent |-> <<>>, emitted |-> <<>>, saved |-> 0, index |-> 0]

\* a Network constructed from a submitted form, not validated yet
InitSubmitted ==
    /\ config \in ValidateConfigs
    /\ \E attr \in ValidateAttrs : net = Network(attr)
    /\ peer = Network([host |-> net.host, nick |-> NickDefault, uuid |-> UuidPeer])
    /\ sts \in ValidateStores
    /\ now = 0
    /\ last = [op |-> "new", stsPre |-> sts, ret |-> TRUE, msgs |-> <<>>,
               sent |-> <<>>, emitted |-> <<>>, saved |-> 0, index |-> 0]

\* network.validate(client)
Validate ==
    LET v == validate(net, sts, now)
    IN  /\ net' = v.net
        /\ last' = Last("validate", v.ret, v.msgs, <<>>, <<>>, 0, 0)
        /\ UNCHANGED <<config, sts, now>>
        /\ UNCHANGED <<peer, cmVars, upVars>>

EditSendsBeforeValidate(args, setname) ==
    LET v == validate(editAssign(net, args), sts, now)
        n == v.net
    IN  /\ net' = [n EXCEPT !.irc = editIrc(n, net.nick)]
        /\ last' = Last("edit", v.ret, v.msgs,
                        editSent(n, net.nick, net.realname, setname),
                        editEmitted(n, net.nick), 1, 0)
        /\ UNCHANGED <<config, sts, now>>
        /\ UNCHANGED <<peer, cmVars, upVars>>

\* network.edit(client, args); setname is whether the server has enabled the
\* setname capability
Edit(args, setname) ==
    LET v == validate(editAssign(net, args), sts, now)
        n == v.net
    IN  /\ net' = IF v.ret THEN [n EXCEPT !.irc = editIrc(n, net.nick)] ELSE n
        /\ last' = IF v.ret
                      THEN Last("edit", TRUE, v.msgs,
                                editSent(n, net.nick, net.realname, setname),
                                editEmitted(n, net.nick), 1, 0)
                      ELSE Last("edit", FALSE, v.msgs, <<>>, <<>>, 0, 0)
        /\ UNCHANGED <<config, sts, now>>
        /\ UNCHANGED <<peer, cmVars, upVars>>

\* network.createIrcFramework(client), which the client calls once, when it
\* first connects the Network
CreateIrcFramework(client, jitter) ==
    /\ ~net.irc.created
    /\ net' = [net EXCEPT !.irc = createIrcFramework(net, client, jitter)]
    /\ last' = Last("createIrcFramework", TRUE, <<>>, <<>>, <<>>, 0, jitter)
    /\ UNCHANGED <<config, sts, now>>
    /\ UNCHANGED <<peer, cmVars, upVars>>

\* createIrcFramework(client) of the second Network, for its own user
PeerCreateIrcFramework(client, jitter) ==
    /\ ~peer.irc.created
    /\ peer' = [peer EXCEPT !.irc = createIrcFramework(peer, client, jitter)]
    /\ last' = Last("peerCreateIrcFramework", TRUE, <<>>, <<>>, <<>>, 0, jitter)
    /\ UNCHANGED <<config, net, sts, now>>
    /\ UNCHANGED <<cmVars, upVars>>

QuitWithoutRefresh ==
    /\ last' = Last("quit", TRUE, <<>>,
                    IF net.irc.created THEN <<"QUIT">> ELSE <<>>, <<>>, 0, 0)
    /\ UNCHANGED <<config, net, sts, now>>
    /\ UNCHANGED <<peer, cmVars, upVars>>

QuitRefreshesWithoutHandle ==
    /\ sts' = STSRefreshExpiration(sts, now, net.host)
    /\ last' = Last("quit", TRUE, <<>>,
                    IF net.irc.created THEN <<"QUIT">> ELSE <<>>, <<>>, 0, 0)
    /\ UNCHANGED <<config, net, now>>
    /\ UNCHANGED <<peer, cmVars, upVars>>

\* network.quit(quitMessage)
Quit ==
    /\ sts' = IF net.irc.created THEN STSRefreshExpiration(sts, now, net.host) ELSE sts
    /\ last' = Last("quit", TRUE, <<>>,
                    IF net.irc.created THEN <<"QUIT">> ELSE <<>>, <<>>, 0, 0)
    /\ UNCHANGED <<config, net, now>>
    /\ UNCHANGED <<peer, cmVars, upVars>>

\* network.addChannel(newChan), while the list holds at most max entries
AddChannel(name, type, max) ==
    LET newChan == Chan(name, type, Len(net.channels))
        index == addChannelIndex(net.channels, newChan)
    IN  /\ Len(net.channels) <= max
        /\ net' = [net EXCEPT !.channels = splice(net.channels, index, newChan)]
        /\ last' = Last("addChannel", TRUE, <<>>, <<>>, <<>>, 0, index)
        /\ UNCHANGED <<config, sts, now>>
        /\ UNCHANGED <<peer, cmVars, upVars>>

\* the engine's socket is established: plain, encrypted and authorized, or local
IrcConnected(transport) ==
    /\ net.irc.created
    /\ net.irc.transport = "none"
    /\ net' = [net EXCEPT !.irc.transport = transport]
    /\ last' = Last("connected", TRUE, <<>>, <<>>, <<>>, 0, 0)
    /\ UNCHANGED <<config, sts, now>>
    /\ UNCHANGED <<peer, cmVars, upVars>>

\* the engine's socket is closed
IrcClosed ==
    /\ net.irc.created
    /\ net.irc.transport # "none"
    /\ net' = [net EXCEPT !.irc.transport = "none"]
    /\ last' = Last("closed", TRUE, <<>>, <<>>, <<>>, 0, 0)
    /\ UNCHANGED <<config, sts, now>>
    /\ UNCHANGED <<peer, cmVars, upVars>>

\* a server of host advertises a policy to some Network of the process, which
\* is stored for that host
STSDiscovered(host, port) ==
    /\ sts' = STSSetPolicy(sts, now, host, port, PolicyDuration)
    /\ last' = Last("sts", TRUE, <<>>, <<>>, <<>>, 0, 0)
    /\ UNCHANGED <<config, net, now>>
    /\ UNCHANGED <<peer, cmVars, upVars>>

\* time passes
Tick ==
    /\ now < MaxTime
    /\ now' = now + 1
    /\ last' = Last("tick", TRUE, <<>>, <<>>, <<>>, 0, 0)
    /\ UNCHANGED <<config, net, sts>>
    /\ UNCHANGED <<peer, cmVars, upVars>>

\* the entities added to the list beside the configuration's operations
NewChans == {ChanAlpha} \X {ChanType.CHANNEL, ChanType.SPECIAL}

\* the operations on the configuration, the handle and the channel list
Next ==
    \/ Validate
    \/ \E args \in EditArgs, setname \in BOOLEAN : Edit(args, setname)
    \/ \E client \in ClientContexts : CreateIrcFramework(client, 0)
    \/ Quit
    \/ \E c \in NewChans : AddChannel(c[1], c[2], MaxChannels)
    \/ \E transport \in {"plain", "authorized"} : IrcConnected(transport)
    \/ IrcClosed

\* the operations that read or write the policies, as time passes
NextSts ==
    \/ Validate
    \/ \E args \in StsEditArgs : Edit(args, FALSE)
    \/ CreateIrcFramework([log |-> FALSE, canProvideMessages |-> FALSE], 0)
    \/ Quit
    \/ \E host \in PolicyHosts, port \in PolicyPorts : STSDiscovered(host, port)
    \/ Tick

----------------------------------------------------------------------------
(* ClientManager *)

\* "bob", "Bob", "a/b", ".."
UserBob == <<98, 111, 98>>
UserBobCap == <<66, 111, 98>>
UserSlash == <<97, 47, 98>>
UserDotDot == <<46, 46>>

\* the position after the last "/" of str[1..end] (0: none)
RECURSIVE lastSlash(_, _)
lastSlash(str, end) ==
    IF end = 0 THEN 0
    ELSE IF str[end] = 47 THEN end
    ELSE lastSlash(str, end - 1)

\* the length of str without its trailing "/"s
RECURSIVE trimmedLen(_, _)
trimmedLen(str, end) ==
    IF end > 0 /\ str[end] = 47 THEN trimmedLen(str, end - 1) ELSE end

\* path.basename(str) on POSIX
basename(str) ==
    LET end == trimmedLen(str, Len(str))
    IN  SubSeq(str, lastSlash(str, end) + 1, end)

\* JSON.stringify and JSON.parse of a configuration object
JSONStringify(value) == <<"json", value>>
JSONParse(text) == text[2]

\* equality of two usernames under the column's collation utf8mb4_unicode_ci,
\* which ignores case
collationEqual(a, b) == toLowerCase(a) = toLowerCase(b)

\* new Client(manager, name, config)
Client(name, clientConfig) ==
    [name |-> name,
     config |-> clientConfig,
     networks |-> IF "networks" \in DOMAIN clientConfig THEN clientConfig.networks ELSE 0]

\* ClientManager.prototype.getDataToSave
getDataToSave(client) ==
    JSONStringify([k \in DOMAIN client.config \cup {"networks"} |->
                      IF k = "networks" THEN client.networks ELSE client.config[k]])

\* this.database.query(sql, values, callback): the query handed to the pool
Query(kind, name, data) ==
    [id |-> issued + 1, pool |-> database, kind |-> kind, name |-> name,
     data |-> data, state |-> "sent", result |-> {}]

\* the indexes of the cached sessions named name
cached(name) == {i \in 1..Len(clients) : clients[i].name = name}

\* this.clients.find((u) => u.name === name): the first of them, if any
find(name) ==
    IF cached(name) = {} THEN {}
    ELSE {CHOOSE i \in cached(name) : \A j \in cached(name) : i <= j}

\* the accounts persisted when the process starts
InitialRows ==
    {{}, {[username |-> UserBob, config |-> JSONStringify([password |-> StrPw, log |-> TRUE])]}}

InitClientManager ==
    /\ clients = <<>>
    /\ database = 0
    /\ rows \in InitialRows
    /\ queries = {}
    /\ issued = 0
    /\ lastSave = {}
    /\ cmLast = [op |-> "new"]
    /\ crashed = FALSE

\* ClientManager.prototype.init: the pool is created, the schema's two
\* statements and the query that loads every user are handed to it
CMInit ==
    /\ ~crashed
    /\ database = 0
    /\ issued + 3 <= MaxQueries
    /\ database' = 1
    /\ queries' = queries \cup
          {[id |-> issued + 1, pool |-> 1, kind |-> "schema", name |-> EmptyStr,
            data |-> <<>>, state |-> "sent", result |-> {}],
           [id |-> issued + 2, pool |-> 1, kind |-> "schema", name |-> EmptyStr,
            data |-> <<>>, state |-> "sent", result |-> {}],
           [id |-> issued + 3, pool |-> 1, kind |-> "selectAll", name |-> EmptyStr,
            data |-> <<>>, state |-> "sent", result |-> {}]}
    /\ issued' = issued + 3
    /\ cmLast' = [op |-> "init"]
    /\ UNCHANGED <<clients, rows, lastSave>>
    /\ UNCHANGED <<crashed, netVars, upVars>>

\* ClientManager.prototype.loadUser(name), and findClient(name), which calls it
LoadUser(name) ==
    /\ ~crashed
    /\ database # 0
    /\ IF find(name) = {}
          THEN /\ issued < MaxQueries
               /\ queries' = queries \cup {Query("selectOne", name, <<>>)}
               /\ issued' = issued + 1
          ELSE UNCHANGED <<queries, issued>>
    /\ cmLast' = [op |-> "loadUser", name |-> name, ret |-> find(name),
                  wasCached |-> cached(name) # {},
                  hadRow |-> \E r \in rows : r.username = name]
    /\ UNCHANGED <<clients, database, rows, lastSave>>
    /\ UNCHANGED <<crashed, netVars, upVars>>

\* ClientManager.prototype.addUser(name, password, enableLog)
AddUser(name, password, enableLog) ==
    /\ ~crashed
    /\ database # 0
    /\ database < MaxPools
    /\ issued < MaxQueries
    /\ database' = database + 1
    /\ IF basename(name) # name
          THEN /\ cmLast' = [op |-> "addUser", name |-> name, ret |-> "throw"]
               /\ UNCHANGED <<queries, issued>>
          ELSE /\ queries' = queries \cup
                     {[id |-> issued + 1, pool |-> database + 1, kind |-> "insert",
                       name |-> name,
                       data |-> JSONStringify([password |-> password, log |-> enableLog]),
                       state |-> "sent", result |-> {}]}
               /\ issued' = issued + 1
               /\ cmLast' = [op |-> "addUser", name |-> name, ret |-> "true",
                             isNew |-> /\ cached(name) = {}
                                       /\ ~\E r \in rows : collationEqual(r.username, name)]
    /\ UNCHANGED <<clients, rows, lastSave>>
    /\ UNCHANGED <<crashed, netVars, upVars>>

\* ClientManager.prototype.saveUser(client, callback) for the i-th session
SaveUser(i) ==
    /\ ~crashed
    /\ i \in 1..Len(clients)
    /\ issued < MaxQueries
    /\ LET newUser == getDataToSave(clients[i])
       IN  /\ queries' = queries \cup {Query("update", clients[i].name, newUser)}
           /\ lastSave' = {s \in lastSave : s.name # clients[i].name}
                              \cup {[name |-> clients[i].name, data |-> newUser]}
    /\ issued' = issued + 1
    /\ cmLast' = [op |-> "saveUser", name |-> clients[i].name]
    /\ UNCHANGED <<clients, database, rows>>
    /\ UNCHANGED <<crashed, netVars, upVars>>

\* the user of the i-th session adds a network to it
AddNetwork(i) ==
    /\ ~crashed
    /\ i \in 1..Len(clients)
    /\ clients[i].networks < MaxNetworks
    /\ clients' = [clients EXCEPT ![i].networks = @ + 1]
    /\ cmLast' = [op |-> "addNetwork", name |-> clients[i].name]
    /\ UNCHANGED <<database, rows, queries, issued, lastSave>>
    /\ UNCHANGED <<crashed, netVars, upVars>>

\* A connection of the pool executes a query. The pool holds up to 100
\* connections and gives each query one that is free, so the queries in
\* flight are executed in no particular order.
Execute(q) ==
    /\ ~crashed
    /\ q \in queries
    /\ q.state = "sent"
    /\ CASE q.kind = "schema" ->
              /\ queries' = queries \ {q}
              /\ UNCHANGED rows
         [] q.kind = "selectAll" ->
              /\ queries' = (queries \ {q}) \cup {[q EXCEPT !.state = "done", !.result = rows]}
              /\ UNCHANGED rows
         [] q.kind = "selectOne" ->
              /\ queries' = (queries \ {q}) \cup
                    {[q EXCEPT !.state = "done",
                               !.result = {r \in rows : collationEqual(r.username, q.name)}]}
              /\ UNCHANGED rows
         [] q.kind = "insert" ->
              /\ queries' = queries \ {q}
              /\ rows' = IF \E r \in rows : collationEqual(r.username, q.name)
                            THEN rows
                            ELSE rows \cup {[username |-> q.name, config |-> q.data]}
         [] q.kind = "update" ->
              /\ queries' = queries \ {q}
              /\ rows' = {IF collationEqual(r.username, q.name)
                             THEN [r EXCEPT !.config = q.data] ELSE r : r \in rows}
    /\ cmLast' = [op |-> "execute", kind |-> q.kind]
    /\ UNCHANGED <<clients, database, issued, lastSave>>
    /\ UNCHANGED <<crashed, netVars, upVars>>

\* the rows of a result in the order the database returns them
RECURSIVE rowsInOrder(_)
rowsInOrder(result) ==
    IF result = {} THEN <<>>
    ELSE LET r == CHOOSE x \in result : TRUE
         IN  <<r>> \o rowsInOrder(result \ {r})

\* the callback of a SELECT, lines 48-59 and 71-82: a session is constructed
\* for each row and pushed to the cache
Callback(q) ==
    /\ ~crashed
    /\ q \in queries
    /\ q.state = "done"
    /\ queries' = queries \ {q}
    /\ clients' = clients \o
          [i \in 1..Cardinality(q.result) |->
              Client(rowsInOrder(q.result)[i].username,
                     JSONParse(rowsInOrder(q.result)[i].config))]
    /\ cmLast' = [op |-> "callback", kind |-> q.kind]
    /\ UNCHANGED <<database, rows, issued, lastSave>>
    /\ UNCHANGED <<crashed, netVars, upVars>>

\* The database returns an error to a query, and the query's callback is
\* called with it: the callback of a schema statement logs it and throws it
\* (lines 36-41), from the pool's event handler, where nothing catches it; the
\* other callbacks log it and return (lines 49-52, 72-75, 107-111, 132-136).
Fail(q) ==
    /\ ~crashed
    /\ q \in queries
    /\ q.state = "sent"
    /\ queries' = queries \ {q}
    /\ crashed' = (q.kind = "schema")
    /\ cmLast' = [op |-> "error", kind |-> q.kind, logged |-> TRUE]
    /\ UNCHANGED <<clients, database, rows, issued, lastSave>>
    /\ UNCHANGED <<netVars, upVars>>

\* the names given to loadUser and to addUser
LoadNames == {UserBob, UserBobCap}
AddNames == {UserBob, UserSlash, UserDotDot}

NextClientManager ==
    \/ CMInit
    \/ \E name \in LoadNames : LoadUser(name)
    \/ \E name \in AddNames : AddUser(name, StrPw, TRUE)
    \/ \E i \in 1..Len(clients) : SaveUser(i)
    \/ \E i \in 1..Len(clients) : AddNetwork(i)
    \/ \E q \in queries : Execute(q)
    \/ \E q \in queries : Callback(q)

----------------------------------------------------------------------------
(* Uploader *)

uploadTokensKept(tokens, token) == tokens

\* uploadTokens.delete(token): the keys the map is left with
uploadTokensDelete(tokens, token) == tokens \ {token}

\* the messages of the responses
MsgInvalidToken == "Invalid upload token"
MsgLengthRequired == "Length Required"
MsgUnsupportedType == "Unsupported Content Type"

InitUploader ==
    /\ uploadTokens = {}
    /\ timers = {}
    /\ tokenCount = 0
    /\ requests = <<>>

\* the handler of "upload:auth": a new token is stored and sent to the
\* socket, and its timer is started
UploadAuth ==
    /\ ~crashed
    /\ tokenCount < MaxTokens
    /\ tokenCount' = tokenCount + 1
    /\ uploadTokens' = uploadTokens \cup {tokenCount + 1}
    /\ timers' = timers \cup {tokenCount + 1}
    /\ UNCHANGED <<requests, crashed, cmData, netVars>>

\* the timer of line 45 fires for token
TokenTimeout(token) ==
    /\ ~crashed
    /\ token \in timers
    /\ timers' = timers \ {token}
    /\ uploadTokens' = uploadTokensDelete(uploadTokens, token)
    /\ UNCHANGED <<tokenCount, requests, crashed, cmData, netVars>>

\* the bodies and headers of the requests: no body, a content type that is
\* not multipart, no content type at all, multipart headers busboy rejects,
\* and a multipart body
RequestKinds == {"empty", "notMultipart", "noContentType", "malformed", "multipart"}

\* the response the synchronous part of routeUploadFile sends (none when the
\* body is piped to busboy); a missing content-type header makes
\* startsWith throw, which the router answers with 500
routeUploadFileResponse(had, kind) ==
    IF ~had THEN <<[status |-> 400, body |-> MsgInvalidToken]>>
    ELSE IF kind = "empty" THEN <<[status |-> 400, body |-> MsgLengthRequired]>>
    ELSE IF kind = "noContentType" THEN <<[status |-> 500, body |-> "TypeError"]>>
    ELSE IF kind = "notMultipart" THEN <<[status |-> 400, body |-> MsgUnsupportedType]>>
    ELSE IF kind = "malformed" THEN <<[status |-> 400, body |-> "busboy"]>>
    ELSE <<>>

\* Uploader.routeUploadFile(req, res) up to req.pipe(busboyInstance)
RouteUploadFile(token, kind) ==
    /\ ~crashed
    /\ Len(requests) < MaxRequests
    /\ LET had == token \in uploadTokens
           responses == routeUploadFileResponse(had, kind)
       IN  requests' = Append(requests,
              [token |-> token, hadToken |-> had, passed |-> had,
               responses |-> responses, busboy |-> responses = <<>>,
               uploadUrl |-> FALSE, s3 |-> "none"])
    /\ uploadTokens' = uploadTokensDelete(uploadTokens, token)
    /\ UNCHANGED <<timers, tokenCount, crashed, cmData, netVars>>

\* busboy's "file" event (files: 1 allows one): the url is set and the
\* stream is handed to s3.upload
BusboyFile(i) ==
    /\ ~crashed
    /\ i \in 1..Len(requests)
    /\ requests[i].busboy
    /\ ~requests[i].uploadUrl
    /\ requests' = [requests EXCEPT ![i].uploadUrl = TRUE, ![i].s3 = "pending"]
    /\ UNCHANGED <<uploadTokens, timers, tokenCount, crashed, cmData, netVars>>

\* busboy's "finish" event: the listeners are removed, and the url is sent
\* with 200, or "Missing file" with 400
BusboyFinish(i) ==
    /\ ~crashed
    /\ i \in 1..Len(requests)
    /\ requests[i].busboy
    /\ requests' = [requests EXCEPT
          ![i].busboy = FALSE,
          ![i].responses = IF requests[i].uploadUrl
                              THEN <<[status |-> 200, body |-> "url"]>>
                              ELSE <<[status |-> 400, body |-> "Missing file"]>>]
    /\ UNCHANGED <<uploadTokens, timers, tokenCount, crashed, cmData, netVars>>

\* busboy's "error", "partsLimit", "filesLimit" and "fieldsLimit" events,
\* which have the same handler but for the message: abortWithError removes
\* the listeners and sends 400
BusboyAbort(i, event) ==
    /\ ~crashed
    /\ i \in 1..Len(requests)
    /\ requests[i].busboy
    /\ requests' = [requests EXCEPT
          ![i].busboy = FALSE,
          ![i].responses = <<[status |-> 400, body |-> event]>>]
    /\ UNCHANGED <<uploadTokens, timers, tokenCount, crashed, cmData, netVars>>

\* the callback of s3.upload. With err it calls abortWithError: the
\* listeners are removed and 400 is sent, unless a response was sent
\* already: then res.json throws from the callback, where nothing catches it.
S3UploadDone(i, err) ==
    /\ ~crashed
    /\ i \in 1..Len(requests)
    /\ requests[i].s3 = "pending"
    /\ IF ~err
          THEN /\ requests' = [requests EXCEPT ![i].s3 = "ok"]
               /\ UNCHANGED crashed
          ELSE IF requests[i].responses = <<>>
          THEN /\ requests' = [requests EXCEPT
                     ![i].s3 = "failed",
                     ![i].busboy = FALSE,
                     ![i].responses = <<[status |-> 400, body |-> "s3"]>>]
               /\ UNCHANGED crashed
          ELSE /\ requests' = [requests EXCEPT ![i].s3 = "failed"]
               /\ crashed' = TRUE
    /\ UNCHANGED <<uploadTokens, timers, tokenCount, cmData, netVars>>

\* the Uploader beside a Network and a ClientManager that are left alone
NextUploader ==
    \/ UploadAuth
    \/ \E token \in timers : TokenTimeout(token)
    \/ \E token \in 1..MaxTokens, kind \in RequestKinds : RouteUploadFile(token, kind)
    \/ \E i \in 1..Len(requests) : BusboyFile(i)
    \/ \E i \in 1..Len(requests) : BusboyFinish(i)
    \/ \E i \in 1..Len(requests), event \in {"error", "filesLimit"} :
          BusboyAbort(i, event)
    \/ \E i \in 1..Len(requests), err \in BOOLEAN : S3UploadDone(i, err)

----------------------------------------------------------------------------
(* The specifications *)

\* a Network beside a ClientManager that is left alone
Init == InitNetwork /\ InitClientManager /\ InitUploader /\ rows = {}

Spec == Init /\ [][Next]_vars

SpecSts == Init /\ [][NextSts]_vars

\* the ClientManager beside one Network that is left alone
InitManagerOnly ==
    /\ InitNetwork
    /\ InitClientManager
    /\ InitUploader
    /\ ~config.lockNetwork /\ ~config.public /\ ~config.defaults.tls
    /\ net.host = HostH

SpecClientManager == InitManagerOnly /\ [][NextClientManager]_vars

\* the ClientManager over a database that may return errors
NextPersistenceErrors ==
    \/ CMInit
    \/ \E name \in LoadNames : LoadUser(name)
    \/ \E name \in AddNames : AddUser(name, StrPw, TRUE)
    \/ \E i \in 1..Len(clients) : SaveUser(i)
    \/ \E i \in 1..Len(clients) : AddNetwork(i)
    \/ \E q \in queries : Execute(q)
    \/ \E q \in queries : Callback(q)
    \/ \E q \in queries : Fail(q)

SpecPersistenceErrors == InitManagerOnly /\ [][NextPersistenceErrors]_vars

\* validate applied to what users submit, under every configuration
NextValidate == Validate

InitValidate == InitSubmitted /\ InitClientManager /\ InitUploader /\ rows = {}

SpecValidate == InitValidate /\ [][NextValidate]_vars

\* two Networks of one host create their handles
NextReconnect ==
    \/ \E client \in ClientContexts, jitter \in Jitters :
          CreateIrcFramework(client, jitter)
    \/ \E client \in ClientContexts, jitter \in Jitters :
          PeerCreateIrcFramework(client, jitter)

SpecReconnect == Init /\ [][NextReconnect]_vars

\* a Network under the configurations of EditConfigs, beside policies
\* stored earlier
InitEdit ==
    /\ config \in EditConfigs
    /\ \E attr \in ConstructAttrs : net = Network(attr)
    /\ peer = Network([host |-> net.host, nick |-> NickDefault, uuid |-> UuidPeer])
    /\ sts \in ValidateStores
    /\ now = 0
    /\ last = [op |-> "new", stsPre |-> sts, ret |-> TRUE, msgs |-> <<>>,
               sent |-> <<>>, emitted |-> <<>>, saved |-> 0, index |-> 0]
    /\ InitClientManager
    /\ InitUploader
    /\ rows = {}

\* a handle is created, connected and closed while the Network is edited
NextEdit ==
    \/ \E args \in EditArgs, setname \in BOOLEAN : Edit(args, setname)
    \/ CreateIrcFramework([log |-> FALSE, canProvideMessages |-> TRUE], 0)
    \/ IrcConnected("authorized")
    \/ IrcClosed

SpecEdit == InitEdit /\ [][NextEdit]_vars

InitUploaderOnly == InitManagerOnly /\ rows = {}

SpecUploader == InitUploaderOnly /\ [][NextUploader]_vars

\* the entities added in the specification that only adds channels
SortedChans ==
    {<<ChanAlpha, ChanType.CHANNEL>>, <<ChanALPHA, ChanType.QUERY>>,
     <<ChanMango, ChanType.CHANNEL>>, <<ChanMangoCap, ChanType.CHANNEL>>,
     <<ChanZulu, ChanType.CHANNEL>>, <<ChanZulu, ChanType.SPECIAL>>,
     <<ChanAlpha, ChanType.LOBBY>>}

NextChannels == \E c \in SortedChans : AddChannel(c[1], c[2], MaxSortedChannels)

SpecChannels == InitManagerOnly /\ [][NextChannels]_vars

----------------------------------------------------------------------------
(* The claims *)

ClientKeys == {"uuid", "name", "nick", "serverOptions", "channels", "status"}

\* C1: in every reachable state of the Network, the object getFilteredClone
\* returns has keys among uuid, name, nick, serverOptions, channels and
\* status only; password, host, username, ignoreList and irc are not keys.
C1_FilteredCloneKeys ==
    /\ DOMAIN getFilteredClone(net) \subseteq ClientKeys
    /\ DOMAIN getFilteredClone(net)
          \cap {"password", "host", "username", "ignoreList", "irc"} = {}

\* C1's case: the clone of a validated Network that holds a password, a handle
\* and a channel carries the six client keys
C1_Witness ==
    /\ net.password = StrPw
    /\ net.irc.created
    /\ Len(net.channels) > 1
    /\ "highlightRegex" \in DOMAIN net
    /\ DOMAIN getFilteredClone(net) = ClientKeys

\* the configuration an edit commits
Committed(n) ==
    <<n.nick, n.host, n.name, n.port, n.tls, n.rejectUnauthorized, n.password,
      n.username, n.realname, n.commands, n.keepNick, n.channels[1].name>>

\* C2: an edit that validate rejects leaves the committed configuration (nick,
\* host, name, port, tls, rejectUnauthorized, password, username, realname,
\* commands, keepNick, the lobby's name) as it was before the call.
C2_RejectedEditKeepsConfiguration ==
    [][(last'.op = "edit" /\ ~last'.ret) => Committed(net') = Committed(net)]_vars

\* the port of host's live policy
PolicyPortOf(store, t, host) == (CHOOSE p \in STSGet(store, t, host) : TRUE).port

\* C3, as claimed: when a live policy exists for the Network's host and its
\* tls is off, validate leaves tls and rejectUnauthorized on and the port
\* that of the policy, whatever the administrator's configuration.
C3_PolicyAlwaysUpgrades ==
    [][(/\ last'.op = "validate"
        /\ STSGet(sts, now, net.host) # {}
        /\ ~net.tls)
       => (/\ net'.tls
           /\ net'.rejectUnauthorized
           /\ net'.port = PolicyPortOf(sts, now, net.host))]_vars

\* C3, amended: when validate accepts the Network, a live policy exists for
\* the host validate leaves it with, and tls is off once lockNetwork has been
\* applied (the Network's own tls without lockNetwork, the administrator's
\* default with it), validate leaves tls and rejectUnauthorized on and the
\* port that of the policy.
C3_PolicyUpgradesAccepted ==
    [][(/\ last'.op = "validate"
        /\ last'.ret
        /\ STSGet(sts, now, net'.host) # {}
        /\ ~(IF config.lockNetwork THEN config.defaults.tls ELSE net.tls))
       => (/\ net'.tls
           /\ net'.rejectUnauthorized
           /\ net'.port = PolicyPortOf(sts, now, net'.host))]_vars

\* C3's case: under lockNetwork, validate has upgraded the administrator's
\* default host to its policy's port
C3_Witness ==
    /\ last.op = "validate"
    /\ last.ret
    /\ last.msgs = <<MsgStsPolicy>>
    /\ config.lockNetwork
    /\ STSGet(sts, now, net.host) # {}
    /\ net.tls /\ net.rejectUnauthorized /\ net.port \in PolicyPorts

\* C4, as claimed: when a live policy exists for the Network's host, quit
\* leaves its expiry at least the time of the call plus its duration, with or
\* without a handle.
C4_QuitAlwaysRefreshes ==
    [][(last'.op = "quit")
       => \A p \in STSGet(sts, now, net.host) :
             \E q \in sts' : q.host = p.host /\ q.expires >= now + p.duration]_vars

\* C4, amended: the same, for a Network that holds a handle.
C4_QuitWithHandleRefreshes ==
    [][(last'.op = "quit" /\ net.irc.created)
       => \A p \in STSGet(sts, now, net.host) :
             \E q \in sts' : q.host = p.host /\ q.expires >= now + p.duration]_vars

\* C4's case: quit on a Network with a handle has moved the expiry of its
\* host's live policy
C4_Witness ==
    /\ last.op = "quit"
    /\ net.irc.created
    /\ \E p \in last.stsPre :
          /\ p.host = net.host
          /\ p.expires > now
          /\ p.expires < now + p.duration
          /\ \E q \in sts : q.host = p.host /\ q.expires = now + p.duration

\* a sorts at or before b when case is ignored
caseInsensitiveLeq(a, b) == compareUnits(toLowerCase(a), toLowerCase(b), 1) <= 0

names(channels) == [i \in 1..Len(channels) |-> channels[i].name]

\* C5: after any sequence of addChannel calls from [lobby], the channels and
\* queries are sorted by name, case ignored; the other entries are in the
\* order of their insertion; the lobby is first; and mango added to
\* [lobby, alpha, zulu] gives [lobby, alpha, mango, zulu].
C5_ChannelOrder ==
    /\ [](/\ net.channels[1].type = ChanType.LOBBY
          /\ net.channels[1].id = 0
          /\ \A i, j \in 2..Len(net.channels) :
                (i < j /\ isChannelOrQuery(net.channels[i])
                       /\ isChannelOrQuery(net.channels[j]))
                   => caseInsensitiveLeq(net.channels[i].name, net.channels[j].name)
          /\ \A i, j \in 2..Len(net.channels) :
                (i < j /\ ~isChannelOrQuery(net.channels[i])
                       /\ ~isChannelOrQuery(net.channels[j]))
                   => net.channels[i].id < net.channels[j].id)
    /\ [][(/\ last'.op = "addChannel"
           /\ Len(net.channels) = 3
           /\ isChannelOrQuery(net.channels[2]) /\ isChannelOrQuery(net.channels[3])
           /\ SubSeq(names(net.channels), 2, 3) = <<ChanAlpha, ChanZulu>>
           /\ net'.channels[last'.index + 1].name = ChanMango
           /\ isChannelOrQuery(net'.channels[last'.index + 1]))
          => SubSeq(names(net'.channels), 2, 4) = <<ChanAlpha, ChanMango, ChanZulu>>]_vars

\* C5's case: mango has been added between alpha and zulu, before an entry
\* that is neither a channel nor a query
C5_Witness ==
    /\ last.op = "addChannel"
    /\ last.index = 2
    /\ Len(net.channels) = 5
    /\ names(net.channels) = <<net.name, ChanAlpha, ChanMango, ChanZulu, ChanZulu>>
    /\ ~isChannelOrQuery(net.channels[5])

\* C6: the first entry of the list is the lobby the constructor created, and
\* its name is the Network's name.
C6_LobbyNamedAfterNetwork ==
    /\ net.channels[1].type = ChanType.LOBBY
    /\ net.channels[1].id = 0
    /\ net.channels[1].name = net.name

\* C7: the cache never holds two sessions with the same name.
C7_OneSessionPerName ==
    \A i, j \in 1..Len(clients) : clients[i].name = clients[j].name => i = j

\* C8: loadUser returns the cached session when there is one, and otherwise,
\* when a row exists for the name, returns a session of that name that is in
\* the cache.
C8_LoadUserReturnsSession ==
    cmLast.op = "loadUser" =>
        /\ cmLast.wasCached => cmLast.ret # {}
        /\ (~cmLast.wasCached /\ cmLast.hadRow) =>
              /\ cmLast.ret # {}
              /\ \A i \in cmLast.ret : i \in 1..Len(clients) /\ clients[i].name = cmLast.name

\* C9: a loadUser(name) that follows at once an addUser(name) that succeeded
\* for a new name returns a session of that name.
C9_LoadUserAfterAddUser ==
    [][(/\ cmLast.op = "addUser" /\ cmLast.ret = "true" /\ cmLast.isNew
        /\ cmLast'.op = "loadUser" /\ cmLast'.name = cmLast.name)
       => (/\ cmLast'.ret # {}
           /\ \A i \in cmLast'.ret : clients'[i].name = cmLast.name)]_vars

\* C10: once no write of an account is outstanding, its persisted
\* configuration is the data of the most recent saveUser call.
C10_LastSaveWins ==
    \A s \in lastSave :
        (~\E q \in queries : q.kind = "update" /\ q.name = s.name)
            => \A r \in rows : r.username = s.name => r.config = s.data

\* a bare token: not empty, no path separator, not a traversal component
bareToken(name) ==
    /\ Len(name) > 0
    /\ \A i \in 1..Len(name) : name[i] # 47
    /\ name \notin {<<46>>, <<46, 46>>}

\* C11: addUser with a name that is not a bare token (it holds a path
\* separator or is a traversal component) signals an error, hands no insert
\* to the database and changes nothing of the ClientManager; with any other
\* name it hands exactly one insert of that name to the database.
C11_AddUserChecksName ==
    [][(cmLast'.op = "addUser") =>
          IF ~bareToken(cmLast'.name)
             THEN /\ cmLast'.ret = "throw"
                  /\ UNCHANGED <<clients, database, rows, queries>>
             ELSE /\ cmLast'.ret = "true"
                  /\ \E q \in queries' \ queries :
                        /\ q.kind = "insert"
                        /\ q.name = cmLast'.name
                        /\ queries' = queries \cup {q}]_vars

\* C12: addUser with a name that has a persisted record does not report
\* success, and no insert that is executed changes a record that exists.
C12_AddUserReportsConflict ==
    [][/\ (/\ cmLast'.op = "addUser"
           /\ \E r \in rows : r.username = cmLast'.name)
          => cmLast'.ret # "true"
       /\ (cmLast'.op = "execute" /\ cmLast'.kind = "insert")
          => \A r \in rows : r \in rows']_vars

\* C13: an error the database returns to a query of init, loadUser, addUser
\* or saveUser is logged and never ends the process.
C13_PersistenceErrorsNeverCrash ==
    /\ ~crashed
    /\ cmLast.op = "error" => cmLast.logged

\* C14: quit on a Network that holds a handle leaves it without one, so that
\* nothing done later reaches the connection that was quit.
C14_QuitReleasesHandle ==
    [][(last'.op = "quit" /\ net.irc.created) => ~net'.irc.created]_vars

\* the administrator's defaults are what the Network connects with
ConnectsWithDefaults(n) ==
    /\ n.host = config.defaults.host
    /\ n.port = config.defaults.port
    /\ n.tls = config.defaults.tls
    /\ n.rejectUnauthorized = config.defaults.rejectUnauthorized

\* C15, as claimed: under lockNetwork, validate fails and pushes an error to
\* the lobby when public is off and the submitted host is neither empty nor
\* the default host; in every other case it ends with host, port, tls and
\* rejectUnauthorized those of the administrator's defaults.
C15_LockForcesDefaults ==
    [][(last'.op = "validate" /\ config.lockNetwork) =>
          IF ~config.public /\ net.host # EmptyStr /\ net.host # config.defaults.host
             THEN ~last'.ret /\ last'.msgs = <<MsgHostNotAllowed>>
             ELSE ConnectsWithDefaults(net')]_vars

\* C15, amended: the host that is compared is the submitted one once cleaned
\* and lower-cased, and when validate does not refuse it, it ends with the
\* default host and with the default port, tls and rejectUnauthorized, unless
\* the default tls is off and a live policy exists for the default host: then
\* tls and rejectUnauthorized are on and the port is the policy's.
C15_LockForcesDefaultsBeforePolicy ==
    [][(last'.op = "validate" /\ config.lockNetwork) =>
          LET host == toLowerCase(cleanString(net.host))
              policy == STSGet(sts, now, config.defaults.host)
          IN  IF ~config.public /\ host # EmptyStr /\ host # config.defaults.host
                 THEN ~last'.ret /\ last'.msgs = <<MsgHostNotAllowed>>
                 ELSE IF policy # {} /\ ~config.defaults.tls
                         /\ config.defaults.host # EmptyStr
                 THEN /\ net'.host = config.defaults.host
                      /\ net'.tls
                      /\ net'.rejectUnauthorized
                      /\ \E p \in policy : net'.port = p.port
                 ELSE ConnectsWithDefaults(net')]_vars

\* C15's case: under lockNetwork without public, validate has accepted the
\* host "D.io" and forced the defaults, no policy standing in the way
C15_Witness ==
    /\ last.op = "validate"
    /\ last.ret
    /\ config.lockNetwork /\ ~config.public
    /\ net.name = HostDUpper
    /\ sts = {}
    /\ ConnectsWithDefaults(net)

\* the control characters: U+0000 to U+001F and U+007F
ControlChars == (0..31) \cup {127}

\* C16: whatever nick was submitted, after validate the Network's nick holds
\* no control character, no whitespace, no ':', '!' or '@', and at most 100
\* code units.
C16_NickIsClean ==
    [][(last'.op = "validate") =>
          /\ Len(net'.nick) <= 100
          /\ \A i \in 1..Len(net'.nick) :
                net'.nick[i] \notin ControlChars \cup WhiteSpace \cup {58, 33, 64}]_vars

\* h lower-cased, without its control and newline bytes, cut to 300 code units
hostForm(h) ==
    toLowerCase(substring(SelectSeq(h, LAMBDA c : c \notin ControlChars), 0, 300))

\* C17: whatever host was submitted and whatever the administrator's
\* configuration, after validate the Network's host is the submitted one
\* lower-cased, without its control and newline bytes, cut to 300 code units.
C17_HostIsCleaned ==
    [][(last'.op = "validate") => net'.host = hostForm(net.host)]_vars

\* C19: when displayNetwork is off, exportForEdit returns the keys name, nick,
\* username, password and realname only: no other key, and nothing derived
\* from the host.
C19_HiddenNetworkExport ==
    ~config.displayNetwork =>
        DOMAIN exportForEdit(net, sts, now)
            = {"name", "nick", "username", "password", "realname"}

\* C20: quit on a Network that has never created a handle changes nothing:
\* not the Network, not the policies or their expiry, and nothing is sent to
\* the engine.
C20_QuitWithoutHandleIsNoOp ==
    [][(last'.op = "quit" /\ ~net.irc.created)
       => (/\ net' = net
           /\ sts' = sts
           /\ last'.sent = <<>>
           /\ ~net'.irc.created)]_vars

\* C20's case: quit was called without a handle while a policy of the
\* Network's host was live and part of its duration had run
C20_Witness ==
    /\ last.op = "quit"
    /\ ~net.irc.created
    /\ last.stsPre = sts
    /\ \E p \in sts :
          /\ p.host = net.host
          /\ p.expires > now
          /\ p.expires < now + p.duration

\* C18, as claimed: the reconnect delays of two Networks of one host whose
\* handles createIrcFramework has built differ, and neither is 10000.
C18_ReconnectDelaysDiffer ==
    (net.irc.created /\ peer.irc.created /\ net.host = peer.host) =>
        /\ net.irc.options.auto_reconnect_wait # peer.irc.options.auto_reconnect_wait
        /\ net.irc.options.auto_reconnect_wait # 10000
        /\ peer.irc.options.auto_reconnect_wait # 10000

\* C18, amended: each delay is 10000 plus the whole number from 0 to 999
\* that its own call drew, so that both lie from 10000 to 10999.
C18_ReconnectDelaysAreJittered ==
    /\ [][(last'.op = "createIrcFramework") =>
             /\ last'.index \in 0..999
             /\ net'.irc.options.auto_reconnect_wait = 10000 + last'.index]_vars
    /\ [][(last'.op = "peerCreateIrcFramework") =>
             /\ last'.index \in 0..999
             /\ peer'.irc.options.auto_reconnect_wait = 10000 + last'.index]_vars
    /\ []((net.irc.created /\ peer.irc.created /\ net.host = peer.host) =>
             /\ net.irc.options.auto_reconnect_wait \in 10000..10999
             /\ peer.irc.options.auto_reconnect_wait \in 10000..10999)

\* C18's case: two Networks of one host hold handles whose delays differ
\* from each other and from the base delay
C18_Witness ==
    /\ net.irc.created /\ peer.irc.created
    /\ net.host = peer.host
    /\ net.irc.options.auto_reconnect_wait = 10999
    /\ peer.irc.options.auto_reconnect_wait = 10001

\* C21: after an edit that is accepted on a Network that holds a handle, the
\* handle's options host, port, password, tls, rejectUnauthorized and gecos
\* are the Network's validated host, port, password, tls, rejectUnauthorized
\* and realname; its username is the Network's when useHexIp is off and is
\* the one it had when useHexIp is on.
C21_EditUpdatesHandleOptions ==
    [][(last'.op = "edit" /\ last'.ret /\ net.irc.created) =>
          /\ net'.irc.created
          /\ net'.irc.options.host = net'.host
          /\ net'.irc.options.port = net'.port
          /\ net'.irc.options.password = net'.password
          /\ net'.irc.options.tls = net'.tls
          /\ net'.irc.options.rejectUnauthorized = net'.rejectUnauthorized
          /\ net'.irc.options.gecos = net'.realname
          /\ net'.irc.options.username =
                IF config.useHexIp THEN net.irc.options.username
                                   ELSE net'.username]_vars

\* C21's case: with useHexIp on, an edit that a policy upgraded was accepted
\* on a Network with a handle; the handle has the policy's port and has kept
\* its username
C21_Witness ==
    /\ last.op = "edit"
    /\ last.ret
    /\ last.msgs = <<MsgStsPolicy>>
    /\ config.useHexIp
    /\ net.irc.created
    /\ net.irc.options.port \in PolicyPorts
    /\ net.irc.options.tls
    /\ net.irc.options.username = HexIp
    /\ net.username # HexIp

\* C22: an edit that is rejected sends no command, emits no event, leaves
\* the handle as it was and saves nothing; an edit that is accepted saves
\* the client exactly once.
C22_RejectedEditHasNoConnectionEffects ==
    [][(last'.op = "edit") =>
          IF ~last'.ret
             THEN /\ last'.sent = <<>>
                  /\ last'.emitted = <<>>
                  /\ net'.irc = net.irc
                  /\ last'.saved = 0
             ELSE last'.saved = 1]_vars

\* C22's case: an edit that changes the nick was rejected on a Network whose
\* handle is connected
C22_Witness ==
    /\ last.op = "edit"
    /\ ~last.ret
    /\ net.irc.created
    /\ net.irc.transport # "none"
    /\ net.nick # net.irc.options.nick
    /\ last.sent = <<>>
    /\ last.saved = 0

\* C23: of the requests that present a token, at most one passes the token
\* test, whatever the order of the requests and of the timer; the token is
\* gone from the map once a request has passed the test, also when a later
\* test rejects that request; and a request whose token is not in the map
\* (never issued, used or timed out) gets 400 "Invalid upload token".
C23_TokenAuthorizesOneRequest ==
    /\ \A i, j \in 1..Len(requests) :
          (/\ requests[i].passed
           /\ requests[j].passed
           /\ requests[i].token = requests[j].token) => i = j
    /\ \A i \in 1..Len(requests) :
          /\ requests[i].passed => requests[i].token \notin uploadTokens
          /\ requests[i].passed => requests[i].hadToken
          /\ ~requests[i].hadToken =>
                /\ ~requests[i].passed
                /\ requests[i].responses = <<[status |-> 400, body |-> MsgInvalidToken]>>

\* C23's case: a request passed the token test and was rejected for its
\* empty body, and the next request with the same token was refused while
\* the token's timer was still running
C23_Witness ==
    /\ Len(requests) = 2
    /\ requests[1].passed
    /\ requests[1].responses = <<[status |-> 400, body |-> MsgLengthRequired]>>
    /\ requests[2].token = requests[1].token
    /\ requests[2].responses = <<[status |-> 400, body |-> MsgInvalidToken]>>
    /\ requests[1].token \in timers

\* C24: whatever the order of busboy's events and of the callback of the
\* upload to the object storage, a request is not answered twice, and 200
\* with the url is sent only for an upload that did not fail.
C24_OneResponsePerUpload ==
    \A i \in 1..Len(requests) :
        /\ Len(requests[i].responses) <= 1
        /\ ~crashed
        /\ (\E k \in 1..Len(requests[i].responses) :
                requests[i].responses[k].status = 200)
              => requests[i].s3 # "failed"

=============================================================================
